---- MODULE Spec2Model ----
(***************************************************************************)
(* Lateral controller of selfdrive/controls/lib/latcontrol.py.             *)
(*                                                                         *)
(* Floating point values are modelled as exact rationals <<n, d>> with     *)
(* d > 0 and gcd(n, d) = 1, extended by the three IEEE specials            *)
(* NaN = <<0, 0>>, +inf = <<1, 0>> and -inf = <<-1, 0>>.  Rounding of      *)
(* finite results is not modelled.  The clock sec_since_boot() is counted  *)
(* in milliseconds.                                                        *)
(***************************************************************************)
EXTENDS Integers, Sequences, FiniteSets, TLC

(***************************************************************************)
(* Floating point arithmetic                                               *)
(***************************************************************************)
NaN == <<0, 0>>
PInf == <<1, 0>>
NInf == <<-1, 0>>

Abs(i) == IF i < 0 THEN -i ELSE i

Sgn(i) == IF i < 0 THEN -1 ELSE IF i > 0 THEN 1 ELSE 0

RECURSIVE GCD(_, _)
GCD(a, b) == IF b = 0 THEN a ELSE GCD(b, a % b)

\* the float n/d, for d # 0
Q(n, d) ==
  LET g == GCD(Abs(n), Abs(d))
  IN  <<(Sgn(d) * n) \div g, Abs(d) \div g>>

F(i) == <<i, 1>>

IsNaN(a) == a = NaN
IsInf(a) == a = PInf \/ a = NInf
IsFinite(a) == a[2] > 0

FNeg(a) == <<-a[1], a[2]>>

FAdd(a, b) ==
  IF IsNaN(a) \/ IsNaN(b) THEN NaN
  ELSE IF IsInf(a) THEN (IF IsInf(b) /\ b # a THEN NaN ELSE a)
  ELSE IF IsInf(b) THEN b
  ELSE LET g == GCD(a[2], b[2])
       IN  Q(a[1] * (b[2] \div g) + b[1] * (a[2] \div g), (a[2] \div g) * b[2])

FSub(a, b) == FAdd(a, FNeg(b))

FMul(a, b) ==
  IF IsNaN(a) \/ IsNaN(b) THEN NaN
  ELSE IF IsInf(a) \/ IsInf(b)
       THEN (IF a[1] = 0 \/ b[1] = 0 THEN NaN
             ELSE IF Sgn(a[1]) = Sgn(b[1]) THEN PInf ELSE NInf)
  ELSE LET g1 == GCD(Abs(a[1]), b[2])
           g2 == GCD(Abs(b[1]), a[2])
       IN  Q((a[1] \div g1) * (b[1] \div g2), (a[2] \div g2) * (b[2] \div g1))

\* a / b for a divisor b that is finite and not zero
FDiv(a, b) ==
  IF IsNaN(a) THEN NaN
  ELSE IF IsInf(a) THEN (IF b[1] > 0 THEN a ELSE FNeg(a))
  ELSE FMul(a, Q(b[2], b[1]))

\* a < b; every comparison with NaN is false
RECURSIVE FracLt(_, _, _, _)
\* a/b < c/d for b, d > 0, by comparing the continued fractions
FracLt(a, b, c, d) ==
  IF a \div b # c \div d THEN a \div b < c \div d
  ELSE IF c % d = 0 THEN FALSE
  ELSE IF a % b = 0 THEN TRUE
  ELSE FracLt(d, c % d, b, a % b)

FLt(a, b) ==
  IF IsNaN(a) \/ IsNaN(b) THEN FALSE
  ELSE IF a = b THEN FALSE
  ELSE IF a = NInf \/ b = PInf THEN TRUE
  ELSE IF a = PInf \/ b = NInf THEN FALSE
  ELSE FracLt(a[1], a[2], b[1], b[2])

FLe(a, b) == (~IsNaN(a)) /\ (~IsNaN(b)) /\ (a = b \/ FLt(a, b))

\* Python's max(a, b): a unless b > a
FMax(a, b) == IF FLt(a, b) THEN b ELSE a

\* Python's min(a, b): a unless b < a
FMin(a, b) == IF FLt(b, a) THEN b ELSE a

FAbs(a) == <<Abs(a[1]), a[2]>>

(***************************************************************************)
(* math.radians and math.degrees, with 180/pi taken as 401/7               *)
(***************************************************************************)
DegPerRad == Q(401, 7)

radians(x) == FDiv(x, DegPerRad)

degrees(x) == FMul(x, DegPerRad)

(***************************************************************************)
(* "%f" % x: the decimal text of x with six digits after the point, kept   *)
(* as the number that text denotes ("nan" and "inf" for the specials)      *)
(***************************************************************************)
RECURSIVE FracDigits(_, _, _, _)
\* k further decimal digits of r / d (0 <= r < d), appended to acc, and the
\* remainder left after them
FracDigits(r, d, k, acc) ==
  IF k = 0 THEN <<acc, r>>
  ELSE FracDigits((r * 10) % d, d, k - 1, acc * 10 + ((r * 10) \div d))

FormatF(x) ==
  IF ~IsFinite(x) THEN x
  ELSE IF 1000000 % x[2] = 0 THEN x   \* six digits hold x exactly
  ELSE LET n == Abs(x[1])
           fd == FracDigits(n % x[2], x[2], 6, n \div x[2])
           micro == IF 2 * fd[2] >= x[2] THEN fd[1] + 1 ELSE fd[1]
       IN  Q(Sgn(x[1]) * micro, 1000000)

(***************************************************************************)
(* Collaborators configured outside this file                              *)
(***************************************************************************)
\* an attribute that holds None or was never assigned
None == <<0, -1>>

\* selfdrive.controls.lib.drive_helpers.MPC_COST_LAT
MPC_COST_LAT == [PATH |-> F(1), LANE |-> F(3), HEADING |-> F(1)]

\* VM.CP, the car parameters the controller is constructed and called with
CP == [steerRatio |-> F(15),
       steerRateCost |-> Q(1, 2),
       steerActuatorDelay |-> Q(1, 10),
       steerMaxBP |-> <<F(5), F(25)>>,
       steerMaxV |-> <<F(1), Q(1, 2)>>,
       steerKf |-> Q(1, 10000),
       steerKpV |-> <<Q(1, 2)>>,
       steerKiV |-> <<Q(1, 10)>>,
       steerControlType |-> "torque"]

\* VM.curvature_factor(v_ego): 1 / (1 - sf * v^2) / wheelbase with the slip
\* factor sf = -1/100 and a wheelbase of 5/2
curvature_factor(v_ego) ==
  FDiv(FDiv(F(1), FAdd(F(1), FMul(Q(1, 100), FMul(v_ego, v_ego)))), Q(5, 2))

RECURSIVE interp(_, _, _)
\* common.numpy_fast.interp: piecewise linear through (xp[k], fp[k]), held
\* constant outside the breakpoints
interp(x, xp, fp) ==
  IF FLe(x, xp[1]) \/ Len(xp) = 1 THEN fp[1]
  ELSE IF FLt(x, xp[2])
       THEN FAdd(fp[1], FDiv(FMul(FSub(x, xp[1]), FSub(fp[2], fp[1])),
                             FSub(xp[2], xp[1])))
  ELSE interp(x, Tail(xp), Tail(fp))

\* PIController.__init__(..., k_f=steerKf, pos_limit=1.0)
PIController == [pos_limit |-> F(1), neg_limit |-> None, i |-> F(0), saturated |-> FALSE]

\* PIController.reset
pid_reset(pid) == [pid EXCEPT !.i = F(0), !.saturated = FALSE]

\* common.numpy_fast.clip: max(lo, min(hi, x))
clip(x, lo, hi) == FMax(lo, FMin(hi, x))

\* PIController.update: the control the gain scheduling arrives at is an
\* outcome of code outside this file (NaN for a setpoint that is not finite);
\* the controller keeps it as its state, reports saturation when asked to
\* check it and the control is beyond a limit, and returns the control
\* clipped to [neg_limit, pos_limit]
pid_control(setpoint, control) == IF IsFinite(setpoint) THEN control ELSE NaN

pid_update(pid, setpoint, control, check_saturation) ==
  LET c == pid_control(setpoint, control)
  IN  [pid EXCEPT !.i = c,
                  !.saturated = check_saturation
                                /\ (FLt(c, pid.neg_limit) \/ FLt(pid.pos_limit, c))]

pid_output(pid, setpoint, control) ==
  clip(pid_control(setpoint, control), pid.neg_limit, pid.pos_limit)

(***************************************************************************)
(* Module-level functions and constants of latcontrol.py                   *)
(***************************************************************************)
ratioScale == 20

\* abs(x / 100.) ** ratioExp for ratioExp = 2.9, to four decimals, at the
\* steering angles the model uses
AnglePow(angle_steers) ==
  LET a == FAbs(angle_steers)
  IN  CASE a = F(0) -> F(0)
        [] a = F(10) -> Q(13, 10000)
        [] a = F(20) -> Q(94, 10000)
        [] a = F(30) -> Q(305, 10000)
        [] a = F(34) -> Q(438, 10000)
        [] a = F(35) -> Q(476, 10000)
        [] a = F(50) -> Q(1340, 10000)
        [] a = F(100) -> F(1)

\* RatioFactor without the floor of 0.1
RatioFactor_unclamped(angle_steers) ==
  FSub(F(1), FMul(F(ratioScale), AnglePow(angle_steers)))

\* max(0.1, 1. - self.ratioScale * abs(angle_steers / 100.) ** self.ratioExp)
RatioFactor(angle_steers) ==
  FMax(Q(1, 10), FSub(F(1), FMul(F(ratioScale), AnglePow(angle_steers))))

\* calc_states_after_delay that also clears delta
calc_states_after_delay_cleared(states, v_ego, steer_angle, curv_factor, steer_ratio, delay) ==
  [states EXCEPT
     !.x = FMul(v_ego, delay),
     !.psi = FMul(FDiv(FMul(FMul(v_ego, curv_factor), radians(steer_angle)),
                       steer_ratio), delay),
     !.delta = F(0)]

\* states[0].x = v_ego * delay; states[0].psi = v_ego * curvature_factor *
\* math.radians(steer_angle) / steer_ratio * delay; return states
calc_states_after_delay(states, v_ego, steer_angle, curv_factor, steer_ratio, delay) ==
  [states EXCEPT
     !.x = FMul(v_ego, delay),
     !.psi = FMul(FDiv(FMul(FMul(v_ego, curv_factor), radians(steer_angle)),
                       steer_ratio), delay)]

get_steer_max(v_ego) == interp(v_ego, CP.steerMaxBP, CP.steerMaxV)

(***************************************************************************)
(* class LatControl                                                        *)
(***************************************************************************)
\* libmpc.init(pathCost, laneCost, headingCost, steerRateCost)
libmpc_init(steer_rate_cost) ==
  <<MPC_COST_LAT.PATH, MPC_COST_LAT.LANE, MPC_COST_LAT.HEADING, steer_rate_cost>>

\* the delta horizon of a fresh log_t, of which the model keeps three steps
ZeroHorizon == <<F(0), F(0), F(0)>>

\* the object after LatControl.__init__, which ends in setup_mpc
LatControl ==
  [pid |-> PIController,
   last_cloudlog_t |-> 0,
   libmpc |-> libmpc_init(CP.steerRateCost),
   mpc_solution |-> [delta |-> ZeroHorizon],
   cur_state |-> [x |-> F(0), y |-> F(0), psi |-> F(0), delta |-> F(0)],
   mpc_updated |-> FALSE,
   mpc_nans |-> FALSE,
   last_mpc_ts |-> 0,
   angle_steers_des |-> F(0),
   angle_steers_des_mpc |-> F(0),
   angle_steers_des_prev |-> F(0),
   angle_steers_des_time |-> 0,
   steerdata |-> <<>>,
   steer_steps |-> <<F(0), F(0), F(0), F(0), F(0)>>,
   probFactor |-> F(0),
   ProbFactor |-> None,
   sat_flag |-> <<>>]

\* the calls update makes on its collaborators, none made yet
NoCalls ==
  [init |-> <<>>, run_mpc |-> <<>>, warning |-> 0, send |-> <<>>,
   pid_reset |-> 0, pid_update |-> <<>>]

\* SolveDue with the timestamps compared by <=
SolveDue_inclusive(last_mpc_ts, last_md_ts) == last_mpc_ts <= last_md_ts

\* if self.last_mpc_ts < PL.last_md_ts
SolveDue(last_mpc_ts, last_md_ts) == last_mpc_ts < last_md_ts

\* HasNans with only the target step delta[1] examined
HasNans_target(delta) == IsNaN(delta[2])

\* np.any(np.isnan(list(self.mpc_solution[0].delta)))
HasNans(delta) == \E k \in 1..Len(delta) : IsNaN(delta[k])

\* CloudlogDue with the window compared by >=
CloudlogDue_inclusive(t, last_cloudlog_t) == t >= last_cloudlog_t + 5000

\* if t > self.last_cloudlog_t + 5.0, in milliseconds
CloudlogDue(t, last_cloudlog_t) == t > last_cloudlog_t + 5000

\* LaneProbFactor with the left lane's probability alone
LaneProbFactor_left(PP) == PP.l_prob

\* self.ProbFactor = (PL.PP.r_prob + PL.PP.l_prob) / 2.
LaneProbFactor(PP) == FDiv(FAdd(PP.r_prob, PP.l_prob), F(2))

\* delta_desired of the solver branch
DeltaDesired(active, delta, angle_steers, angle_offset, cur_Steer_Ratio) ==
  IF active THEN delta[2]
  ELSE FDiv(radians(FSub(angle_steers, angle_offset)), cur_Steer_Ratio)

\* self.cur_state[0].delta = math.radians(angle_steers) / cur_Steer_Ratio
ResetDelta(angle_steers, cur_Steer_Ratio) == FDiv(radians(angle_steers), cur_Steer_Ratio)

\* AngleSteersDesMpc without the angle offset
AngleSteersDesMpc_nooffset(delta_desired, cur_Steer_Ratio, angle_offset) ==
  degrees(FMul(delta_desired, cur_Steer_Ratio))

\* float(math.degrees(delta_desired * cur_Steer_Ratio) + angle_offset)
AngleSteersDesMpc(delta_desired, cur_Steer_Ratio, angle_offset) ==
  FAdd(degrees(FMul(delta_desired, cur_Steer_Ratio)), angle_offset)

\* "%f" % x for each x of xs
FormatAll(xs) == [k \in 1..Len(xs) |-> FormatF(xs[k])]

\* the "%d,%f,...,%f,%d" record of 37 fields
SteerData(isActive, delta_desired, angle_offset, angle_steers_des_mpc, cur_Steer_Ratio, ratioFactor, PP, v_ego, time_ns) ==
  <<isActive>>
  \o FormatAll(<<delta_desired, angle_offset, angle_steers_des_mpc, cur_Steer_Ratio,
                 FDiv(CP.steerKf, ratioFactor), FDiv(CP.steerKpV[1], ratioFactor),
                 FDiv(CP.steerKiV[1], ratioFactor), CP.steerRateCost,
                 PP.l_prob, PP.r_prob, PP.c_prob, PP.p_prob>>
               \o PP.l_poly \o PP.r_poly \o PP.p_poly \o PP.c_poly
               \o SubSeq(PP.d_poly, 1, 3)
               \o <<PP.lane_width, PP.lane_width_estimate, PP.lane_width_certainty,
                    v_ego>>)
  \o <<time_ns>>

\* SlotIndex one slot ahead
SlotIndex_ahead(cur_time) == ((cur_time \div 10) + 1) % 5

\* int(cur_time * 100) % 5, cur_time in milliseconds
SlotIndex(cur_time) == (cur_time \div 10) % 5

\* the new-geometry branch of update: the solver is run, its solution
\* `delta` is taken as the target and checked for NaN, and the diagnostic
\* record is built; `t` is the clock read after the solver returned
SolverBranch(s, in, delta, cur_time, t, ratioFactor, cur_Steer_Ratio) ==
  LET PP == in.PL.PP
      curv_factor == curvature_factor(in.v_ego)
      cur_state1 == calc_states_after_delay(s.cur_state, in.v_ego, in.angle_steers,
                      curv_factor, cur_Steer_Ratio, CP.steerActuatorDelay)
      v_ego_mpc == FMax(in.v_ego, F(5))
      isActive == IF in.active THEN 1 ELSE 0
      delta_desired == DeltaDesired(in.active, delta, in.angle_steers,
                                    in.angle_offset, cur_Steer_Ratio)
      des_mpc == AngleSteersDesMpc(delta_desired, cur_Steer_Ratio, in.angle_offset)
      mpc_nans == HasNans(delta)
      warn == mpc_nans /\ CloudlogDue(t, s.last_cloudlog_t)
  IN  [self |->
         [s EXCEPT
            !.last_mpc_ts = in.PL.last_md_ts,
            !.angle_steers_des_prev = s.angle_steers_des_mpc,
            !.mpc_solution = [delta |-> delta],
            !.ProbFactor = LaneProbFactor(PP),
            !.cur_state = [cur_state1 EXCEPT
               !.delta = IF mpc_nans
                         THEN ResetDelta(in.angle_steers, cur_Steer_Ratio)
                         ELSE delta_desired],
            !.angle_steers_des_mpc = des_mpc,
            !.angle_steers_des_time = cur_time,
            !.mpc_updated = TRUE,
            !.mpc_nans = mpc_nans,
            !.libmpc = IF mpc_nans THEN libmpc_init(CP.steerRateCost) ELSE s.libmpc,
            !.last_cloudlog_t = IF warn THEN t ELSE s.last_cloudlog_t,
            !.steerdata = SteerData(isActive, delta_desired, in.angle_offset, des_mpc,
                                    cur_Steer_Ratio, ratioFactor, PP, in.v_ego, t)],
       calls |->
         [NoCalls EXCEPT
            !.run_mpc = <<[cur_state |-> cur_state1, v_ego |-> v_ego_mpc,
                           curvature_factor |-> curv_factor]>>,
            !.init = IF mpc_nans THEN <<libmpc_init(CP.steerRateCost)>> ELSE <<>>,
            !.warning = IF warn THEN 1 ELSE 0]]

\* elif self.steerdata != "": the pending record is sent and cleared
PublishBranch(s) ==
  IF s.steerdata # <<>>
  THEN [self |-> [s EXCEPT !.steerdata = <<>>],
        calls |-> [NoCalls EXCEPT !.send = <<s.steerdata>>]]
  ELSE [self |-> s, calls |-> NoCalls]

\* if v_ego < 0.3 or not active
Disengaged(active, v_ego) == FLt(v_ego, Q(3, 10)) \/ ~active

\* SlotValue with the slot overwritten by the target in every cycle
SlotValue_always(active, v_ego, angle_steers_des_mpc) == angle_steers_des_mpc

\* the value written into the current slot of steer_steps
SlotValue(active, v_ego, angle_steers_des_mpc) ==
  IF Disengaged(active, v_ego) THEN F(0) ELSE angle_steers_des_mpc

\* (steer_steps[0] + ... + steer_steps[4]) / 5.
StepsMean(steer_steps) ==
  FDiv(FAdd(FAdd(FAdd(FAdd(steer_steps[1], steer_steps[2]), steer_steps[3]),
                 steer_steps[4]), steer_steps[5]), F(5))

\* PosLimit with the limit left as the constructor set it
PosLimit_stale(steers_max) == F(1)

\* self.pid.pos_limit = steers_max
PosLimit(steers_max) == steers_max

\* self.pid.neg_limit = -steers_max
NegLimit(steers_max) == FNeg(steers_max)

\* SteerFeedforward scaled by the square of the speed given to the solver
SteerFeedforward_clamped(angle_steers_des, v_ego) ==
  IF CP.steerControlType = "torque"
  THEN FMul(angle_steers_des, FMul(FMax(v_ego, F(5)), FMax(v_ego, F(5))))
  ELSE angle_steers_des

\* steer_feedforward
SteerFeedforward(angle_steers_des, v_ego) ==
  IF CP.steerControlType = "torque"
  THEN FMul(angle_steers_des, FMul(v_ego, v_ego))
  ELSE angle_steers_des

\* the tail of update, from `if v_ego < 0.3 or not active` to the return;
\* `control` is the outcome of the feedback controller
ControlBranch(s, in, control, cur_time, ratioFactor) ==
  LET steps == [s.steer_steps EXCEPT ![SlotIndex(cur_time) + 1] =
                   SlotValue(in.active, in.v_ego, s.angle_steers_des_mpc)]
  IN  IF Disengaged(in.active, in.v_ego)
      THEN LET pid == pid_reset(s.pid)
           IN  [self |-> [s EXCEPT !.pid = pid, !.steer_steps = steps,
                                   !.sat_flag = <<pid.saturated>>],
                calls |-> [NoCalls EXCEPT !.pid_reset = 1],
                ret |-> [raised |-> FALSE, output_steer |-> F(0),
                         angle_steers_des |-> s.angle_steers_des]]
      ELSE LET des == StepsMean(steps)
               steers_max == get_steer_max(in.v_ego)
               pid1 == [s.pid EXCEPT !.pos_limit = PosLimit(steers_max),
                                     !.neg_limit = NegLimit(steers_max)]
               s1 == [s EXCEPT !.steer_steps = steps, !.angle_steers_des = des]
               check_saturation == FLt(F(10), in.v_ego)
               pid2 == pid_update(pid1, des, control, check_saturation)
           IN  IF s.ProbFactor = None
               \* AttributeError: 'LatControl' object has no attribute 'ProbFactor'
               THEN [self |-> [s1 EXCEPT !.pid = pid1],
                     calls |-> NoCalls,
                     ret |-> [raised |-> TRUE, output_steer |-> None,
                              angle_steers_des |-> None]]
               ELSE [self |-> [s1 EXCEPT !.pid = pid2, !.sat_flag = <<pid2.saturated>>],
                     calls |-> [NoCalls EXCEPT !.pid_update =
                                  <<[setpoint |-> des, measurement |-> in.angle_steers,
                                     ratioFactor |-> ratioFactor,
                                     probFactor |-> s.ProbFactor,
                                     check_saturation |-> check_saturation,
                                     override |-> in.steer_override,
                                     feedforward |-> SteerFeedforward(des, in.v_ego),
                                     speed |-> in.v_ego, deadzone |-> F(0),
                                     pos_limit |-> pid1.pos_limit,
                                     neg_limit |-> pid1.neg_limit]>>],
                     ret |-> [raised |-> FALSE,
                              output_steer |-> pid_output(pid1, des, control),
                              angle_steers_des |-> des]]

\* the calls of the first part of update followed by those of its tail
JoinCalls(a, b) ==
  [init |-> a.init \o b.init, run_mpc |-> a.run_mpc \o b.run_mpc,
   warning |-> a.warning + b.warning, send |-> a.send \o b.send,
   pid_reset |-> a.pid_reset + b.pid_reset,
   pid_update |-> a.pid_update \o b.pid_update]

\* the element of a set of one element
Only(S) == CHOOSE x \in S : TRUE

\* LatControl.update(active, v_ego, angle_steers, steer_override, d_poly,
\* angle_offset, VM, PL) on the object s; `in` holds the arguments, `env` the
\* outcomes of the solver and of the feedback controller, cur_time and t the
\* two readings of sec_since_boot.  `a` is the outcome of the first part of
\* the method and `b` that of its tail, each computed once.
update(s, in, env, cur_time, t) ==
  LET ratioFactor == RatioFactor(in.angle_steers)
      cur_Steer_Ratio == FMul(CP.steerRatio, ratioFactor)
      s0 == [s EXCEPT !.mpc_updated = FALSE]
  IN  Only({Only({[self |-> b.self, calls |-> JoinCalls(a.calls, b.calls), ret |-> b.ret] :
                  b \in {ControlBranch(a.self, in, env.control, cur_time, ratioFactor)}}) :
            a \in {IF SolveDue(s.last_mpc_ts, in.PL.last_md_ts)
                   THEN SolverBranch(s0, in, env.delta, cur_time, t,
                                     ratioFactor, cur_Steer_Ratio)
                   ELSE PublishBranch(s0)}})

(***************************************************************************)
(* The controller under its caller                                         *)
(***************************************************************************)
VARIABLES
  self,      \* the LatControl object
  now,       \* the last reading of sec_since_boot, in milliseconds
  inp,       \* the arguments of the last update
  cur,       \* the reading cur_time of the last update
  ret,       \* what the last update returned
  calls,     \* the calls the last update made on its collaborators
  warnings,  \* the clock readings at which cloudlog.warning was called
  solved,    \* the last five targets of solver updates, oldest first
  injected,  \* those of them set in an engaged update, which wrote them to steer_steps
  cycles,    \* the number of update calls made
  selfB,     \* a second LatControl object, given the arguments of the first
  curB,      \* the reading cur_time of the last update of the second object
  retB,      \* what the last update of the second object returned
  held,      \* the number of engaged updates in a row that ended with the same target
  probe      \* arguments and results of the functions applied on their own

vars == <<self, now, inp, cur, ret, calls, warnings, solved, injected, cycles,
         selfB, curB, retB, held, probe>>

\* number of update calls in a run
MaxCycles == 2

\* PL.last_md_ts ranges over 0..MaxTs
MaxTs == 2

StraightPlan ==
  [l_prob |-> F(1), r_prob |-> F(1), c_prob |-> F(1), p_prob |-> F(1),
   l_poly |-> <<F(0), F(0), F(0), Q(9, 5)>>,
   r_poly |-> <<F(0), F(0), F(0), Q(-9, 5)>>,
   p_poly |-> <<F(0), F(0), F(0), F(0)>>,
   c_poly |-> <<F(0), F(0), F(0), F(0)>>,
   d_poly |-> <<F(0), F(0), F(0), F(0)>>,
   lane_width |-> Q(18, 5), lane_width_estimate |-> Q(18, 5),
   lane_width_certainty |-> F(1)]

CurvePlan ==
  [StraightPlan EXCEPT !.l_prob = F(0), !.r_prob = Q(1, 2),
                       !.p_poly = <<F(0), Q(1, 1000), F(0), F(0)>>,
                       !.d_poly = <<F(0), Q(1, 1000), F(0), F(0)>>]

\* delta horizons the solver may return
Horizons ==
  {<<F(0), Q(1, 50), Q(1, 25)>>,
   <<F(0), NaN, NaN>>,
   <<NaN, Q(1, 50), Q(1, 25)>>,
   <<F(0), PInf, PInf>>}

\* controls the feedback controller may compute
Controls == {F(-2), Q(3, 4)}

\* the arguments of update
Inputs ==
  [active : BOOLEAN, v_ego : {Q(1, 4), F(4), F(20)}, angle_steers : {F(-20), F(100)},
   steer_override : {FALSE}, angle_offset : {F(1)},
   PL : [last_md_ts : 0..MaxTs, PP : {CurvePlan}]]

NoInput ==
  [active |-> FALSE, v_ego |-> F(0), angle_steers |-> F(0), steer_override |-> FALSE,
   angle_offset |-> F(0), PL |-> [last_md_ts |-> 0, PP |-> StraightPlan]]

NoRet == [raised |-> FALSE, output_steer |-> F(0), angle_steers_des |-> F(0)]

NoProbe == [a |-> F(0), b |-> F(0), fa |-> F(1), fb |-> F(1), ratio |-> CP.steerRatio]

Init ==
  /\ self = LatControl
  /\ now = 0
  /\ inp = NoInput
  /\ cur = 0
  /\ ret = NoRet
  /\ calls = NoCalls
  /\ warnings = <<>>
  /\ solved = <<F(0), F(0), F(0), F(0), F(0)>>
  /\ injected = <<F(0), F(0), F(0), F(0), F(0)>>
  /\ cycles = 0
  /\ selfB = LatControl
  /\ curB = 0
  /\ retB = NoRet
  /\ held = 0
  /\ probe = NoProbe

\* what the collaborators may answer in an update of s with arguments `in`:
\* a horizon from H if the solver is run, a control from C if the feedback
\* controller is
Envs(s, in, H, C) ==
  [delta : IF SolveDue(s.last_mpc_ts, in.PL.last_md_ts) THEN H ELSE {ZeroHorizon},
   control : IF Disengaged(in.active, in.v_ego) THEN {F(0)} ELSE C]

\* the time from cur_time to the clock reading t, which is only taken in the
\* solver branch
Lags(s, in, L) == IF SolveDue(s.last_mpc_ts, in.PL.last_md_ts) THEN L ELSE {0}

\* the arguments of I the planner can supply next: its timestamp is 0, the
\* one the controller used last, or the one after that
Arriving(I) ==
  {in \in I : in.PL.last_md_ts \in {0, self.last_mpc_ts, self.last_mpc_ts + 1}}

\* one call of update by the control loop, `step` milliseconds after the
\* last clock reading, with arguments from I and collaborators answering
\* from H and C
Cycle(I, H, C, S, L) ==
  \E in \in Arriving(I), step \in S :
    \E env \in Envs(self, in, H, C), lag \in Lags(self, in, L) :
      \E u \in {update(self, in, env, now + step, now + step + lag)} :
        /\ self' = u.self
        /\ now' = now + step + lag
        /\ inp' = in
        /\ cur' = now + step
        /\ ret' = u.ret
        /\ calls' = u.calls
        /\ warnings' = IF u.calls.warning > 0
                       THEN Append(warnings, now + step + lag) ELSE warnings
        /\ solved' = IF u.self.mpc_updated
                     THEN Append(Tail(solved), u.self.angle_steers_des_mpc)
                     ELSE solved
        /\ injected' = IF u.self.mpc_updated /\ ~Disengaged(in.active, in.v_ego)
                       THEN Append(Tail(injected), u.self.angle_steers_des_mpc)
                       ELSE injected
        /\ cycles' = cycles + 1
        /\ UNCHANGED <<selfB, curB, retB>>

Update ==
  /\ cycles < MaxCycles
  /\ Cycle(Inputs, Horizons, Controls, {10}, {0})
  /\ UNCHANGED <<held, probe>>

\* LatControl.reset
Reset ==
  /\ self' = [self EXCEPT !.pid = pid_reset(self.pid)]
  /\ UNCHANGED <<now, inp, cur, ret, calls, warnings, solved, injected, cycles,
                 selfB, curB, retB, held, probe>>

Next == Update \/ Reset

Spec == Init /\ [][Next]_vars

(***************************************************************************)
(* The control loop under a solver that keeps failing: update calls 10 ms  *)
(* or 5 s apart, the clock moving on by up to a millisecond within a call  *)
(***************************************************************************)
\* number of update calls in a run of SpecLog
LogCycles == 3

LogInputs ==
  [active : {TRUE}, v_ego : {F(20)}, angle_steers : {F(-20)},
   steer_override : {FALSE}, angle_offset : {F(1)},
   PL : [last_md_ts : 0..MaxTs, PP : {StraightPlan}]]

LogHorizons == {<<F(0), Q(1, 50), Q(1, 25)>>, <<F(0), NaN, NaN>>}

LogUpdate ==
  /\ cycles < LogCycles
  /\ Cycle(LogInputs, LogHorizons, {Q(3, 4)}, {10, 5000}, {0, 1})
  /\ UNCHANGED <<held, probe>>

NextLog == LogUpdate

SpecLog == Init /\ [][NextLog]_vars

(***************************************************************************)
(* Two runs given the same arguments and the same answers of the           *)
(* collaborators, each with its own clock readings                         *)
(***************************************************************************)
\* number of update calls in a run of SpecPair
PairCycles == 2

PairInputs ==
  [active : BOOLEAN, v_ego : {F(20)}, angle_steers : {F(-20)},
   steer_override : {FALSE}, angle_offset : {F(1)},
   PL : [last_md_ts : 0..MaxTs, PP : {StraightPlan}]]

PairSteps == {10, 50}

\* one call of update in each of the two runs, with the same arguments
PairUpdate ==
  /\ cycles < PairCycles
  /\ \E in \in Arriving(PairInputs), step \in PairSteps, stepB \in PairSteps :
       \E env \in Envs(self, in, {<<F(0), Q(1, 50), Q(1, 25)>>}, {Q(3, 4)}) :
         \E u \in {update(self, in, env, now + step, now + step)},
            uB \in {update(selfB, in, env, curB + stepB, curB + stepB)} :
           /\ self' = u.self
           /\ now' = now + step
           /\ inp' = in
           /\ cur' = now + step
           /\ ret' = u.ret
           /\ calls' = u.calls
           /\ warnings' = warnings
           /\ solved' = IF u.self.mpc_updated
                        THEN Append(Tail(solved), u.self.angle_steers_des_mpc)
                        ELSE solved
           /\ injected' = IF u.self.mpc_updated /\ ~Disengaged(in.active, in.v_ego)
                          THEN Append(Tail(injected), u.self.angle_steers_des_mpc)
                          ELSE injected
           /\ cycles' = cycles + 1
           /\ selfB' = uB.self
           /\ curB' = curB + stepB
           /\ retB' = uB.ret
           /\ UNCHANGED <<held, probe>>

NextPair == PairUpdate

SpecPair == Init /\ [][NextPair]_vars

(***************************************************************************)
(* The control loop kept engaged on one target, its calls 10 ms or 20 ms   *)
(* apart                                                                   *)
(***************************************************************************)
\* number of update calls in a run of SpecConv
ConvCycles == 5

ConvInputs ==
  [active : {TRUE}, v_ego : {F(20)}, angle_steers : {F(-20)},
   steer_override : {FALSE}, angle_offset : {F(1)},
   PL : [last_md_ts : 0..MaxTs, PP : {StraightPlan}]]

ConvSteps == {10, 20}

\* held after an update: engaged updates that returned, in a row, the
\* target at the end of each the one at the end of the one before
Held(h, s, u, in) ==
  IF Disengaged(in.active, in.v_ego) \/ u.ret.raised THEN 0
  ELSE IF h > 0 /\ u.self.angle_steers_des_mpc = s.angle_steers_des_mpc THEN h + 1
  ELSE 1

ConvUpdate ==
  /\ cycles < ConvCycles
  /\ Cycle(ConvInputs, {<<F(0), Q(1, 50), Q(1, 25)>>}, {Q(3, 4)}, ConvSteps, {0})
  /\ held' = Held(held, self, [self |-> self', ret |-> ret'], inp')
  /\ UNCHANGED probe

NextConv == ConvUpdate

SpecConv == Init /\ [][NextConv]_vars

(***************************************************************************)
(* The control loop under a planner whose lane probabilities change and a  *)
(* driver who may hold the wheel                                           *)
(***************************************************************************)
\* number of update calls in a run of SpecDrive
DriveCycles == 2

DriveInputs ==
  [active : BOOLEAN, v_ego : {F(20)}, angle_steers : {F(-20)},
   steer_override : BOOLEAN, angle_offset : {F(1)},
   PL : [last_md_ts : 0..MaxTs, PP : {StraightPlan, CurvePlan}]]

DriveUpdate ==
  /\ cycles < DriveCycles
  /\ Cycle(DriveInputs, {<<F(0), Q(1, 50), Q(1, 25)>>}, {Q(3, 4)}, {10}, {0})
  /\ UNCHANGED <<held, probe>>

NextDrive == DriveUpdate

SpecDrive == Init /\ [][NextDrive]_vars

(***************************************************************************)
(* The steering-ratio factor applied on its own                            *)
(***************************************************************************)
\* the steering angles of the table AnglePow, of either sign
Angles ==
  {F(0), F(10), F(-10), F(20), F(-20), F(30), F(-30), F(34), F(-34), F(35), F(-35),
   F(50), F(-50), F(100), F(-100)}

\* lines 70-71 of update for two steering angles
RatioProbe ==
  /\ \E a \in Angles, b \in Angles :
       probe' = [a |-> a, b |-> b, fa |-> RatioFactor(a), fb |-> RatioFactor(b),
                 ratio |-> FMul(CP.steerRatio, RatioFactor(a))]
  /\ UNCHANGED <<self, now, inp, cur, ret, calls, warnings, solved, injected, cycles,
                 selfB, curB, retB, held>>

NextRatio == RatioProbe

SpecRatio == Init /\ [][NextRatio]_vars

(***************************************************************************)
(* Properties                                                              *)
(***************************************************************************)
\* the last update was called with v_ego < 0.3 or with active false
LastDisengaged == cycles > 0 /\ (FLt(inp.v_ego, Q(3, 10)) \/ ~inp.active)

\* the last update was called with active true and v_ego >= 0.3
LastEngaged == cycles > 0 /\ inp.active /\ ~FLt(inp.v_ego, Q(3, 10))

\* C1: an update called with v_ego < 0.3 or active false returns the command
\* 0.0, calls pid.reset() and not pid.update(), and leaves 0 in the slot
\* steer_steps[int(cur_time * 100) % 5]
C1_DisengagedIsNeutral ==
  LastDisengaged =>
    /\ ~ret.raised
    /\ ret.output_steer = F(0)
    /\ calls.pid_reset = 1
    /\ calls.pid_update = <<>>
    /\ self.steer_steps[((cur \div 10) % 5) + 1] = F(0)

\* an inactive update in which the solver ran and set a target other than 0
C1_Witness ==
  /\ LastDisengaged
  /\ self.mpc_updated
  /\ self.angle_steers_des_mpc # F(0)
  /\ ret.output_steer = F(0)
  /\ calls.pid_reset = 1

\* C2 (as claimed): update never raises and always returns a command, also
\* when the first engaged cycle comes before any cycle with new geometry
C2_NeverRaises == ~ret.raised

\* the delta horizon returned by the solver in the last update, if it ran
LastHorizon == self.mpc_solution.delta

\* cur_Steer_Ratio of the last update
LastSteerRatio == FMul(CP.steerRatio, RatioFactor(inp.angle_steers))

\* the cost weights the solver was configured with at construction
OriginalWeights ==
  <<MPC_COST_LAT.PATH, MPC_COST_LAT.LANE, MPC_COST_LAT.HEADING, CP.steerRateCost>>

\* what C3 says of an update in which the solver ran: the solver is
\* reinitialized with the original weights and cur_state.delta ends as
\* radians(angle_steers) / cur_Steer_Ratio if `faulty`, and neither otherwise
RecoveryIff(faulty) ==
  IF faulty
  THEN /\ calls.init = <<OriginalWeights>>
       /\ self.libmpc = OriginalWeights
       /\ self.cur_state.delta = FDiv(radians(inp.angle_steers), LastSteerRatio)
  ELSE /\ calls.init = <<>>
       /\ self.cur_state.delta =
            IF inp.active THEN LastHorizon[2]
            ELSE FDiv(radians(FSub(inp.angle_steers, inp.angle_offset)), LastSteerRatio)

C4_StaysFinite ==
  /\ IsFinite(self.angle_steers_des_mpc)
  /\ \A k \in 1..5 : IsFinite(self.steer_steps[k])
  /\ ~ret.raised => IsFinite(ret.angle_steers_des) /\ IsFinite(ret.output_steer)

\* C5: any two "Lateral mpc - nan" warnings are more than 5.0 s apart by
\* sec_since_boot, and an update warns at most once and only if its solver
\* result is not finite
C5_WarningsSpaced ==
  /\ \A i, j \in 1..Len(warnings) : i < j => warnings[j] > warnings[i] + 5000
  /\ calls.warning <= 1
  /\ calls.warning = 1 =>
       /\ self.mpc_updated
       /\ \E k \in 1..Len(LastHorizon) : ~IsFinite(LastHorizon[k])

\* two warnings were emitted, the last one in the last update
C5_Witness ==
  /\ Len(warnings) >= 2
  /\ calls.warning = 1
  /\ self.mpc_nans

\* C6: an update runs the solver, once, exactly if PL.last_md_ts is greater
\* than last_mpc_ts at its start; last_mpc_ts is PL.last_md_ts after a solve
\* and never decreases
C6_SolveOnNewerOnly ==
  [][/\ self'.last_mpc_ts >= self.last_mpc_ts
     /\ cycles' = cycles + 1 =>
          IF inp'.PL.last_md_ts > self.last_mpc_ts
          THEN /\ Len(calls'.run_mpc) = 1
               /\ self'.mpc_updated
               /\ self'.last_mpc_ts = inp'.PL.last_md_ts
          ELSE /\ calls'.run_mpc = <<>>
               /\ ~self'.mpc_updated
               /\ self'.last_mpc_ts = self.last_mpc_ts]_vars

\* an update given the timestamp of an earlier solve did not run the solver
C6_Witness ==
  /\ cycles > 0
  /\ self.last_mpc_ts > 0
  /\ inp.PL.last_md_ts = self.last_mpc_ts
  /\ ~self.mpc_updated
  /\ calls.run_mpc = <<>>

\* the arithmetic mean of five values
Mean5(xs) == FDiv(FAdd(FAdd(FAdd(FAdd(xs[1], xs[2]), xs[3]), xs[4]), xs[5]), F(5))

\* C7 (as claimed): the desired angle returned by an engaged update is the
\* mean of the 5 most recently injected solver targets (those of all solver
\* updates, or those of the engaged ones), and an engaged update without a
\* solver update that follows an engaged update returns the desired angle
\* that one returned
C7_MeanOfInjected ==
  [][(cycles' = cycles + 1 /\ inp'.active /\ ~FLt(inp'.v_ego, Q(3, 10)) /\ ~ret'.raised) =>
       /\ ret'.angle_steers_des \in {Mean5(injected'), Mean5(solved')}
       /\ (LastEngaged /\ ~ret.raised /\ ~self'.mpc_updated) =>
            ret'.angle_steers_des = ret.angle_steers_des]_vars

\* C8: the command returned by update lies in [-steerMax(v_ego),
\* +steerMax(v_ego)], steerMax being the interpolation of (CP.steerMaxBP,
\* CP.steerMaxV) at v_ego: an engaged update calls pid.update with pos_limit
\* and neg_limit set to +steerMax and -steerMax, any other returns 0
C8_CommandWithinSteerMax ==
  (cycles > 0 /\ ~ret.raised) =>
    LET steerMax == interp(inp.v_ego, CP.steerMaxBP, CP.steerMaxV)
    IN  /\ FLe(FNeg(steerMax), ret.output_steer)
        /\ FLe(ret.output_steer, steerMax)
        /\ LastEngaged =>
             /\ Len(calls.pid_update) = 1
             /\ calls.pid_update[1].pos_limit = steerMax
             /\ calls.pid_update[1].neg_limit = FNeg(steerMax)
        /\ LastDisengaged => ret.output_steer = F(0)

\* an engaged update at 20 m/s whose control of 3/4 was cut to steerMax = 5/8
C8_Witness ==
  /\ LastEngaged
  /\ ~ret.raised
  /\ inp.v_ego = F(20)
  /\ calls.pid_update[1].pos_limit = Q(5, 8)
  /\ ret.output_steer = Q(5, 8)

\* C9 (as claimed): two runs given the same sequence of arguments return the
\* same (command, desired angle) in every update, whatever their clock
\* readings
C9_SameOutputs == ret = retB

\* C10 (as claimed): the record of every solver update is published exactly
\* once: a record is only replaced or cleared in the update that sends it, it
\* is sent in an update without new geometry, and what is sent is the pending
\* record, which is then no longer pending
C10_PublishedOnce ==
  [][/\ (self.steerdata # <<>> /\ self'.steerdata # self.steerdata) =>
          calls'.send = <<self.steerdata>>
     /\ (cycles' = cycles + 1 /\ calls'.send # <<>>) =>
          /\ calls'.send = <<self.steerdata>>
          /\ self.steerdata # <<>>
          /\ ~self'.mpc_updated
          /\ self'.steerdata = <<>>]_vars

\* C11 (as claimed): when control has stayed active with v_ego >= 0.3 and the
\* target angle has stayed the same for 5 update cycles in a row, the desired
\* angle the 5th of them returns is that target
C11_ConvergesInFive ==
  held >= 5 => ret.angle_steers_des = self.angle_steers_des_mpc

\* the last update ran the solver with control active
SolverUpdateActive == cycles > 0 /\ self.mpc_updated /\ inp.active

\* C12 (as claimed): after a solver update with control active,
\* angle_steers_des_mpc is degrees(delta[1] * cur_Steer_Ratio) + angle_offset,
\* cur_state.delta is delta[1], and the 4th field of the record built in that
\* update is angle_steers_des_mpc as "%f" writes it
C12_TargetFromSolution ==
  SolverUpdateActive =>
    /\ self.angle_steers_des_mpc =
         FAdd(degrees(FMul(LastHorizon[2], LastSteerRatio)), inp.angle_offset)
    /\ self.cur_state.delta = LastHorizon[2]
    /\ self.steerdata[4] = FormatF(self.angle_steers_des_mpc)

\* C12: after a solver update with control active, angle_steers_des_mpc is
\* degrees(delta[1] * cur_Steer_Ratio) + angle_offset and the 4th field of the
\* record built in that update is that angle rounded to six decimals;
\* cur_state.delta is delta[1] if the horizon holds no NaN and
\* radians(angle_steers) / cur_Steer_Ratio if it holds one
C12_TargetFromSolutionNoNaN ==
  SolverUpdateActive =>
    /\ self.angle_steers_des_mpc =
         FAdd(degrees(FMul(LastHorizon[2], LastSteerRatio)), inp.angle_offset)
    /\ self.cur_state.delta =
         IF \E k \in 1..3 : IsNaN(LastHorizon[k])
         THEN FDiv(FDiv(inp.angle_steers, DegPerRad), LastSteerRatio)
         ELSE LastHorizon[2]
    /\ Len(self.steerdata) = 37
    /\ IF IsFinite(self.angle_steers_des_mpc)
       THEN /\ 1000000 % self.steerdata[4][2] = 0
            /\ FLe(FAbs(FSub(self.steerdata[4], self.angle_steers_des_mpc)),
                   Q(1, 2000000))
       ELSE self.steerdata[4] = self.angle_steers_des_mpc

\* a solver update with control active at a steering angle of 100 degrees,
\* whose target 1903/700 is written to the record as 2.718571
C12_Witness ==
  /\ SolverUpdateActive
  /\ inp.angle_steers = F(100)
  /\ LastHorizon = <<F(0), Q(1, 50), Q(1, 25)>>
  /\ self.cur_state.delta = Q(1, 50)
  /\ self.angle_steers_des_mpc = Q(1903, 700)
  /\ self.steerdata[4] = Q(2718571, 1000000)

\* C13: the steering-ratio factor max(0.1, 1 - 20 * |angle_steers / 100|^2.9)
\* does not increase as |angle_steers| grows, lies in [0.1, 1.0], is 1.0 at
\* angle 0 and 0.1 at angle 100 or -100, and cur_Steer_Ratio =
\* CP.steerRatio * factor is not zero
C13_RatioFactorBounded ==
  /\ FLe(FAbs(probe.a), FAbs(probe.b)) => FLe(probe.fb, probe.fa)
  /\ FLe(Q(1, 10), probe.fa) /\ FLe(probe.fa, F(1))
  /\ probe.a = F(0) => probe.fa = F(1)
  /\ FAbs(probe.a) = F(100) => probe.fa = Q(1, 10)
  /\ probe.ratio = FMul(CP.steerRatio, probe.fa)
  /\ CP.steerRatio # F(0) => probe.ratio # F(0)

\* the factor at -100 degrees, where 1 - 20 is raised to 0.1, and at 20
\* degrees, where it is 1 - 20 * 0.0094
C13_Witness ==
  /\ probe.a = F(-100) /\ probe.fa = Q(1, 10) /\ probe.ratio = Q(3, 2)
  /\ probe.b = F(20) /\ probe.fb = Q(203, 250)

\* C14: steer_steps has 5 slots in every state, every update writes the slot
\* int(cur_time * 100) % 5 and leaves the other four as they were, and an
\* update called with active false or v_ego < 0.3 writes 0 there
C14_OneSlotWritten ==
  [][/\ Len(self.steer_steps) = 5 /\ Len(self'.steer_steps) = 5
     /\ cycles' = cycles + 1 =>
          /\ \A k \in 1..5 : k # ((cur' \div 10) % 5) + 1 =>
                self'.steer_steps[k] = self.steer_steps[k]
          /\ (FLt(inp'.v_ego, Q(3, 10)) \/ ~inp'.active) =>
                self'.steer_steps[((cur' \div 10) % 5) + 1] = F(0)
          /\ (inp'.active /\ ~FLt(inp'.v_ego, Q(3, 10))) =>
                self'.steer_steps[((cur' \div 10) % 5) + 1] = self'.angle_steers_des_mpc
     /\ cycles' = cycles => self'.steer_steps = self.steer_steps]_vars

\* an update called with active false 10 ms after an engaged one: slot 2 is
\* zeroed and slot 1 still holds the target the engaged update wrote
C14_Witness ==
  /\ LastDisengaged
  /\ cur = 20
  /\ self.steer_steps[3] = F(0)
  /\ self.steer_steps[2] # F(0)
  /\ self.angle_steers_des_mpc # F(0)

\* C15 (as claimed): the desired angle every update returns, also one called
\* with active false or v_ego < 0.3, is the mean of the 5 slots of steer_steps
\* as they stand when it returns
C15_ReturnsMeanOfSlots ==
  (cycles > 0 /\ ~ret.raised) => ret.angle_steers_des = Mean5(self.steer_steps)

\* the state `given` is what C16 says calc_states_after_delay makes of the
\* state `before` for the arguments `in` of update
DelayedFrom(given, before, in) ==
  /\ given.x = FMul(in.v_ego, CP.steerActuatorDelay)
  /\ given.psi =
       FMul(FDiv(FMul(FMul(in.v_ego, curvature_factor(in.v_ego)),
                      FDiv(in.angle_steers, DegPerRad)),
                 FMul(CP.steerRatio, RatioFactor(in.angle_steers))),
            CP.steerActuatorDelay)
  /\ given.y = before.y
  /\ given.delta = before.delta

\* C16: the state calc_states_after_delay hands to the solver has
\* x = v_ego * delay and psi = v_ego * curvature_factor * radians(angle_steers)
\* / cur_Steer_Ratio * delay, and the y and delta the state had before the
\* update; an update in which the solver does not run leaves cur_state
\* (x, y, psi, delta) as it was
C16_DelayedState ==
  [][/\ (cycles' = cycles + 1 /\ ~self'.mpc_updated) =>
          /\ calls'.run_mpc = <<>>
          /\ self'.cur_state = self.cur_state
     /\ (cycles' = cycles + 1 /\ self'.mpc_updated) =>
          /\ Len(calls'.run_mpc) = 1
          /\ DelayedFrom(calls'.run_mpc[1].cur_state, self.cur_state, inp')
          /\ self'.cur_state.x = calls'.run_mpc[1].cur_state.x
          /\ self'.cur_state.psi = calls'.run_mpc[1].cur_state.psi
          /\ self'.cur_state.y = calls'.run_mpc[1].cur_state.y
     /\ cycles' = cycles => self'.cur_state = self.cur_state]_vars

\* a second solver update, at 4 m/s: the state handed to the solver has
\* x = 0.4 and a psi other than 0, and still the delta 0.02 of the first
C16_Witness ==
  /\ cycles = 2
  /\ self.mpc_updated
  /\ inp.v_ego = F(4)
  /\ calls.run_mpc[1].cur_state.x = Q(2, 5)
  /\ calls.run_mpc[1].cur_state.psi # F(0)
  /\ calls.run_mpc[1].cur_state.delta = Q(1, 50)

\* C17: the solver is given the speed max(v_ego, 5.0), which is never below
\* 5.0, while the delay compensation (x = v_ego * delay), the steerMax
\* lookup, the feed-forward (desired angle * v_ego^2 under torque control),
\* the speed given to the controller and the check v_ego < 0.3 take v_ego as
\* it was passed
C17_SolverSpeedClamped ==
  cycles > 0 =>
    /\ calls.run_mpc # <<>> =>
         /\ calls.run_mpc[1].v_ego = IF FLt(inp.v_ego, F(5)) THEN F(5) ELSE inp.v_ego
         /\ FLe(F(5), calls.run_mpc[1].v_ego)
         /\ calls.run_mpc[1].cur_state.x = FMul(inp.v_ego, CP.steerActuatorDelay)
    /\ calls.pid_update # <<>> =>
         /\ calls.pid_update[1].pos_limit = interp(inp.v_ego, CP.steerMaxBP, CP.steerMaxV)
         /\ calls.pid_update[1].feedforward =
              FMul(calls.pid_update[1].setpoint, FMul(inp.v_ego, inp.v_ego))
         /\ calls.pid_update[1].speed = inp.v_ego
         /\ calls.pid_update[1].check_saturation = FLt(F(10), inp.v_ego)
    /\ calls.pid_reset = (IF FLt(inp.v_ego, Q(3, 10)) \/ ~inp.active THEN 1 ELSE 0)

\* an engaged update at 4 m/s in which the solver ran: the solver was given
\* 5 m/s, the delay compensation 0.4 m, the feed-forward 16 times the
\* desired angle
C17_Witness ==
  /\ LastEngaged
  /\ inp.v_ego = F(4)
  /\ calls.run_mpc # <<>>
  /\ calls.run_mpc[1].v_ego = F(5)
  /\ calls.run_mpc[1].cur_state.x = Q(2, 5)
  /\ calls.pid_update # <<>>
  /\ calls.pid_update[1].setpoint # F(0)
  /\ IsFinite(calls.pid_update[1].setpoint)
  /\ calls.pid_update[1].feedforward = FMul(calls.pid_update[1].setpoint, F(16))

\* C18: an update in which the solver runs sets the lane-confidence factor
\* to (r_prob + l_prob) / 2 of the plan it was given, any other update leaves
\* the factor as it was whatever the plan it was given, and the factor handed
\* to the feedback controller is the one so kept
C18_ProbFactorAtSolve ==
  [][cycles' = cycles + 1 =>
       /\ self'.mpc_updated =>
            self'.ProbFactor = FDiv(FAdd(inp'.PL.PP.r_prob, inp'.PL.PP.l_prob), F(2))
       /\ ~self'.mpc_updated => self'.ProbFactor = self.ProbFactor
       /\ calls'.pid_update # <<>> =>
            /\ self'.ProbFactor # None
            /\ calls'.pid_update[1].probFactor = self'.ProbFactor]_vars

\* an engaged update without new geometry, given the plan with lane
\* probabilities 0 and 1/2, that hands the controller the factor 1 of the
\* solver update before it
C18_Witness ==
  /\ cycles = 2
  /\ LastEngaged
  /\ ~self.mpc_updated
  /\ inp.PL.PP = CurvePlan
  /\ calls.pid_update # <<>>
  /\ calls.pid_update[1].probFactor = F(1)

\* C19 (as claimed): a solver update called with active false or with
\* steer_override true does not take the solver's result as the target:
\* cur_state.delta is radians(angle_steers - angle_offset) / cur_Steer_Ratio
\* and angle_steers_des_mpc is the measured steering angle
C19_ResetWhenOverriding ==
  (cycles > 0 /\ self.mpc_updated /\ (~inp.active \/ inp.steer_override)) =>
    /\ self.cur_state.delta =
         FDiv(FDiv(FSub(inp.angle_steers, inp.angle_offset), DegPerRad), LastSteerRatio)
    /\ self.angle_steers_des_mpc = inp.angle_steers

====
